---- MODULE Spec2Model ----
(***************************************************************************)
(* TOPSIS command-line tool (src/src/topsis_raj_102217077/topsis.py).      *)
(*                                                                         *)
(* The model follows main(): the usage test on sys.argv, check_inputs, the *)
(* topsis engine and the write of the result file.                         *)
(*                                                                         *)
(* Numbers.  Cell values and weights are small integers, so every float    *)
(* the engine produces is an exact real of the form  num / sqrt(sq)  or    *)
(* sqrt(num / den); the model carries the integers num, sq, den and        *)
(* compares by cross-multiplication.  Rounding of IEEE doubles is not      *)
(* modelled; NaN (0/0, or a missing cell) is modelled and propagates as    *)
(* numpy propagates it.                                                    *)
(*                                                                         *)
(* Strings.  The weights and impacts arguments are sequences of one-       *)
(* character strings; split(','), strip() and float() work on them.        *)
(***************************************************************************)
EXTENDS Integers, Sequences, FiniteSets, TLC

VARIABLES
    argv,       \* sys.argv[1:], a sequence of arguments
    fs,         \* the file system: the input file's table, or "absent"
    pc,         \* position in main: "start", "validated", "scored", "done", "exit1"
    df,         \* the DataFrame check_inputs returned
    processed_weights,
    processed_impacts,
    eng,        \* the engine's arrays: s_best, s_worst, topsis_score
    ranks,      \* the ranks topsis returned
    error,      \* the failure main reported, "none" if none
    result,     \* what was written to result_file, "none" if nothing
    entered,    \* TRUE once topsis has been entered
    prev        \* the previous run of main on a neighbouring input (monotonicity)

vars == <<argv, fs, pc, df, processed_weights, processed_impacts, eng, ranks,
          error, result, entered, prev>>

-----------------------------------------------------------------------------
(* Bounds of the model *)

\* rows of the input table in the validation runs
MaxRowsV == 1
\* comma-separated tokens in the weights and the impacts argument
MaxTokens == 2
\* rows of the decision matrix in the engine runs
MaxRows == 3
\* largest cell value in the engine runs
MaxVal == 2

-----------------------------------------------------------------------------
(* Generic helpers *)

Range(s) == {s[k] : k \in DOMAIN s}

RECURSIVE SumTo(_, _)
\* sum of f[1] + ... + f[n]
SumTo(f, n) == IF n = 0 THEN 0 ELSE f[n] + SumTo(f, n - 1)

RECURSIVE ProdTo(_, _)
\* product f[1] * ... * f[n]
ProdTo(f, n) == IF n = 0 THEN 1 ELSE f[n] * ProdTo(f, n - 1)

Max(S) == CHOOSE x \in S : \A y \in S : y <= x
Min(S) == CHOOSE x \in S : \A y \in S : x <= y

\* all sequences over S of length lo..hi
SeqsOf(S, lo, hi) == UNION {[1..n -> S] : n \in lo..hi}

-----------------------------------------------------------------------------
(* Floats: a finite number or NaN *)

NaN == [t |-> "nan", v |-> 0]
Num(x) == [t |-> "num", v |-> x]
IsNaN(c) == c.t = "nan"

-----------------------------------------------------------------------------
(* Python strings, as sequences of one-character strings *)

Digits == {"0", "1", "2", "3", "4", "5", "6", "7", "8", "9"}

DigitVal(c) ==
    CASE c = "0" -> 0 [] c = "1" -> 1 [] c = "2" -> 2 [] c = "3" -> 3
      [] c = "4" -> 4 [] c = "5" -> 5 [] c = "6" -> 6 [] c = "7" -> 7
      [] c = "8" -> 8 [] c = "9" -> 9

RECURSIVE split(_, _)
\* str.split(sep): the pieces between the separators, empty pieces kept
split(s, sep) ==
    IF \A k \in DOMAIN s : s[k] # sep
    THEN <<s>>
    ELSE LET k == Min({x \in DOMAIN s : s[x] = sep})
         IN  <<SubSeq(s, 1, k - 1)>> \o split(SubSeq(s, k + 1, Len(s)), sep)

RECURSIVE strip(_)
\* str.strip(): leading and trailing blanks removed
strip(s) ==
    IF s = <<>> THEN s
    ELSE IF Head(s) = " " THEN strip(Tail(s))
    ELSE IF s[Len(s)] = " " THEN strip(SubSeq(s, 1, Len(s) - 1))
    ELSE s

\* the digits of a literal, its sign removed
Unsigned(tok) == IF tok # <<>> /\ Head(tok) \in {"-", "+"} THEN Tail(tok) ELSE tok

\* float(tok) does not raise ValueError: an optional sign and decimal digits
\* (fractions, exponents, "inf" and "nan" lie outside the model's alphabet)
IsFloatLiteral(tok) ==
    /\ Unsigned(tok) # <<>>
    /\ \A k \in DOMAIN Unsigned(tok) : Unsigned(tok)[k] \in Digits

RECURSIVE DecimalValue(_)
DecimalValue(ds) ==
    IF ds = <<>> THEN 0
    ELSE 10 * DecimalValue(SubSeq(ds, 1, Len(ds) - 1)) + DigitVal(ds[Len(ds)])

\* float(tok) for a literal float() accepts
float(tok) ==
    IF Head(tok) = "-" THEN 0 - DecimalValue(Unsigned(tok))
    ELSE DecimalValue(Unsigned(tok))

RECURSIVE join(_)
\* ",".join(toks)
join(toks) ==
    IF Len(toks) = 1 THEN toks[1]
    ELSE toks[1] \o <<",">> \o join(Tail(toks))

-----------------------------------------------------------------------------
(* The input file and pandas.read_csv *)

\* the path at which the table fs is stored; every other path does not exist
DataFile == "data.csv"

\* text read_csv takes for a missing value (its default na_values)
NaMarkers == {"", "NA"}

\* a raw cell made of decimal digits only
IsNumericText(c) == c \in {"0", "1", "2", "3", "4", "5", "6"}

NumericTextValue(c) ==
    CASE c = "0" -> 0 [] c = "1" -> 1 [] c = "2" -> 2 [] c = "3" -> 3
      [] c = "4" -> 4 [] c = "5" -> 5 [] c = "6" -> 6

Str == [t |-> "str", v |-> 0]

\* read_csv infers one dtype per column: a column whose cells are all numbers
\* or missing is a float column (missing cells NaN); any other column is an
\* object column whose present cells stay Python strings
read_csv(table) ==
    LET IsFloatColumn(j) ==
            \A i \in DOMAIN table.rows :
                IsNumericText(table.rows[i][j]) \/ table.rows[i][j] \in NaMarkers
        Cell(i, j) ==
            LET c == table.rows[i][j]
            IN  IF c \in NaMarkers THEN NaN
                ELSE IF IsFloatColumn(j) THEN Num(NumericTextValue(c))
                ELSE Str
    IN  [columns |-> table.ncols,
         rows |-> [i \in DOMAIN table.rows |-> [j \in 1..table.ncols |-> Cell(i, j)]]]

\* numpy.isreal on one cell: False for a str, True for a float, NaN included
isreal(c) == c.t # "str"

NoFrame == [columns |-> 0, rows |-> <<>>]

-----------------------------------------------------------------------------
(* check_inputs *)

Raise(kind) == [ok |-> FALSE, err |-> kind, df |-> NoFrame, weights |-> <<>>, impacts |-> <<>>]

Return(d, w, imp) == [ok |-> TRUE, err |-> "none", df |-> d, weights |-> w, impacts |-> imp]

\* a plausible slip: the impact symbols tested before the two counts
check_inputs_symbols_first(input_file, weights, impacts, result_file, table) ==
    IF input_file = "" \/ weights = <<>> \/ impacts = <<>> \/ result_file = ""
    THEN Raise("MissingParameter")
    ELSE IF input_file # DataFile
    THEN Raise("SourceNotFound")
    ELSE
    LET d == read_csv(table)
        num_criteria == d.columns - 1
        wtoks == split(weights, ",")
        itoks == split(impacts, ",")
    IN  IF d.columns < 3
        THEN Raise("InsufficientColumns")
        ELSE IF \E i \in DOMAIN d.rows : \E j \in 2..d.columns : ~isreal(d.rows[i][j])
        THEN Raise("NonNumericCriterion")
        ELSE IF \E k \in DOMAIN wtoks : ~IsFloatLiteral(strip(wtoks[k]))
        THEN Raise("MalformedWeights")
        ELSE
        LET w == [k \in DOMAIN wtoks |-> float(strip(wtoks[k]))]
            imp == [k \in DOMAIN itoks |-> strip(itoks[k])]
        IN  IF \E k \in DOMAIN imp : imp[k] \notin {<<"+">>, <<"-">>}
            THEN Raise("InvalidImpactSymbol")
            ELSE IF Len(w) # num_criteria
            THEN Raise("WeightCountMismatch")
            ELSE IF Len(imp) # num_criteria
            THEN Raise("ImpactCountMismatch")
            ELSE Return(d, w, imp)

check_inputs(input_file, weights, impacts, result_file, table) ==
    IF input_file = "" \/ weights = <<>> \/ impacts = <<>> \/ result_file = ""
    THEN Raise("MissingParameter")
    ELSE IF input_file # DataFile
    THEN Raise("SourceNotFound")
    ELSE
    LET d == read_csv(table)
        num_criteria == d.columns - 1
        wtoks == split(weights, ",")
        itoks == split(impacts, ",")
    IN  IF d.columns < 3
        THEN Raise("InsufficientColumns")
        ELSE IF \E i \in DOMAIN d.rows : \E j \in 2..d.columns : ~isreal(d.rows[i][j])
        THEN Raise("NonNumericCriterion")
        ELSE IF \E k \in DOMAIN wtoks : ~IsFloatLiteral(strip(wtoks[k]))
        THEN Raise("MalformedWeights")
        ELSE
        LET w == [k \in DOMAIN wtoks |-> float(strip(wtoks[k]))]
            imp == [k \in DOMAIN itoks |-> strip(itoks[k])]
        IN  IF Len(w) # num_criteria
            THEN Raise("WeightCountMismatch")
            ELSE IF Len(imp) # num_criteria
            THEN Raise("ImpactCountMismatch")
            ELSE IF \E k \in DOMAIN imp : imp[k] \notin {<<"+">>, <<"-">>}
            THEN Raise("InvalidImpactSymbol")
            ELSE Return(d, w, imp)

-----------------------------------------------------------------------------
(* topsis: the engine                                                      *)
(*                                                                         *)
(* A normalized or weighted cell [t, n, sq] stands for n / sqrt(sq); a     *)
(* separation measure [t, v] stands for sqrt(v / P), P the product of the  *)
(* squared column norms; a score [t, w, b] stands for                      *)
(* sqrt(w) / (sqrt(b) + sqrt(w)).                                          *)

QNaN == [t |-> "nan", n |-> 0, sq |-> 1]

\* df.iloc[:, 1:].values.astype(float)
decision_matrix(d) == [i \in DOMAIN d.rows |-> Tail(d.rows[i])]

NumRows(dm) == Len(dm)
NumCols(dm) == Len(dm[1])

\* np.sqrt(np.sum(decision_matrix**2, axis=0)): v holds the sum of squares
norm(dm) ==
    [j \in 1..NumCols(dm) |->
        IF \E i \in DOMAIN dm : IsNaN(dm[i][j]) THEN NaN
        ELSE Num(SumTo([i \in DOMAIN dm |-> dm[i][j].v * dm[i][j].v], NumRows(dm)))]

\* x / norm for one cell: NaN for a NaN operand and for 0/0 (a cell of a column
\* whose norm is zero is itself zero)
Divide(x, nrm) ==
    IF IsNaN(x) \/ IsNaN(nrm) \/ nrm.v = 0 THEN QNaN
    ELSE [t |-> "num", n |-> x.v, sq |-> nrm.v]

\* decision_matrix / norm
normalized_matrix(dm) ==
    LET nrm == norm(dm)
    IN  [i \in DOMAIN dm |-> [j \in 1..NumCols(dm) |-> Divide(dm[i][j], nrm[j])]]

Times(q, w) == IF q.t = "nan" THEN QNaN ELSE [q EXCEPT !.n = q.n * w]

\* normalized_matrix * weights
weighted_normalized(dm, weights) ==
    LET nm == normalized_matrix(dm)
    IN  [i \in DOMAIN dm |-> [j \in 1..NumCols(dm) |-> Times(nm[i][j], weights[j])]]

Column(wn, j) == [i \in DOMAIN wn |-> wn[i][j]]

\* np.max of a column: NaN if any element is NaN
NpMax(col) ==
    IF \E i \in DOMAIN col : col[i].t = "nan" THEN QNaN
    ELSE [t |-> "num", n |-> Max({col[i].n : i \in DOMAIN col}), sq |-> col[1].sq]

\* np.min of a column: NaN if any element is NaN
NpMin(col) ==
    IF \E i \in DOMAIN col : col[i].t = "nan" THEN QNaN
    ELSE [t |-> "num", n |-> Min({col[i].n : i \in DOMAIN col}), sq |-> col[1].sq]

\* a plausible slip: the two branches of the impact test exchanged
BenefitInverted(imp) == imp # <<"+">>

\* impacts[i] == '+'
Benefit(imp) == imp = <<"+">>

ideal_best(wn, impacts) ==
    [j \in 1..Len(wn[1]) |->
        IF Benefit(impacts[j]) THEN NpMax(Column(wn, j)) ELSE NpMin(Column(wn, j))]

ideal_worst(wn, impacts) ==
    [j \in 1..Len(wn[1]) |->
        IF Benefit(impacts[j]) THEN NpMin(Column(wn, j)) ELSE NpMax(Column(wn, j))]

\* np.sqrt(np.sum((weighted_normalized - ideal)**2, axis=1))
Separation(wn, ideal) ==
    LET m == Len(wn[1])
        P == ProdTo([j \in 1..m |-> wn[1][j].sq], m)
        term(i, j) == (wn[i][j].n - ideal[j].n) * (wn[i][j].n - ideal[j].n)
                          * (P \div wn[i][j].sq)
    IN  [i \in DOMAIN wn |->
            IF \E j \in 1..m : wn[i][j].t = "nan" \/ ideal[j].t = "nan" THEN NaN
            ELSE Num(SumTo([j \in 1..m |-> term(i, j)], m))]

s_best(wn, impacts) == Separation(wn, ideal_best(wn, impacts))

s_worst(wn, impacts) == Separation(wn, ideal_worst(wn, impacts))

SNaN == [t |-> "nan", w |-> 0, b |-> 0]

\* s_worst / (s_best + s_worst) for one row: NaN for a NaN operand and for 0/0
Quotient(sw, sb) ==
    IF IsNaN(sw) \/ IsNaN(sb) \/ (sw.v = 0 /\ sb.v = 0) THEN SNaN
    ELSE [t |-> "num", w |-> sw.v, b |-> sb.v]

topsis_score(sb, sw) == [i \in DOMAIN sb |-> Quotient(sw[i], sb[i])]

\* a < b on two scores; False when either is NaN
ScoreLess(a, b) == a.t = "num" /\ b.t = "num" /\ a.w * b.b < b.w * a.b

\* the order numpy sorts floats in: NaN last
SortsBefore(a, b) == b.t = "nan" \/ (a.t = "num" /\ ~ScoreLess(b, a))

IntBefore(a, b) == a <= b

\* np.argsort(a): the 0-based indices in an order that sorts a.  The default
\* kind ('quicksort') is not stable, so equal elements may come in any order:
\* every sorting order is a possible result.
RECURSIVE SortedOrders(_, _)
\* the orders of the indices in rest that respect le: any least index first,
\* then any such order of the others
SortedOrders(le, rest) ==
    IF rest = {} THEN {<<>>}
    ELSE UNION {{<<i>> \o tail : tail \in SortedOrders(le, rest \ {i})} :
                    i \in {x \in rest : \A y \in rest : le[x][y]}}

argsort(a, Before(_, _)) ==
    LET idx == 0..(Len(a) - 1)
    IN  SortedOrders([x \in idx |-> [y \in idx |-> Before(a[x + 1], a[y + 1])]], idx)

\* a plausible slip: competition ranks, equal scores sharing a rank
RanksTied(score) ==
    {[k \in 1..Len(score) |->
        1 + Cardinality({x \in 1..Len(score) : ScoreLess(score[k], score[x])})]}

\* a plausible slip: the subtraction from len(topsis_score) forgotten
RanksAscending(score) ==
    {[k \in 1..Len(score) |-> second[k] + 1] :
        second \in UNION {argsort(first, IntBefore) : first \in argsort(score, SortsBefore)}}

\* len(topsis_score) - np.argsort(topsis_score).argsort()
RanksOf(score) ==
    {[k \in 1..Len(score) |-> Len(score) - second[k]] :
        second \in UNION {argsort(first, IntBefore) : first \in argsort(score, SortsBefore)}}

NoEng == [s_best |-> <<>>, s_worst |-> <<>>, topsis_score |-> <<>>]

\* the arrays topsis computes before the ranks
topsis(d, weights, impacts) ==
    LET wn == weighted_normalized(decision_matrix(d), weights)
        sb == s_best(wn, impacts)
        sw == s_worst(wn, impacts)
    IN  [s_best |-> sb, s_worst |-> sw, topsis_score |-> topsis_score(sb, sw)]

-----------------------------------------------------------------------------
(* main *)

NoResult == [written |-> FALSE, scores |-> <<>>, ranks |-> <<>>]

NoPrev == [row |-> 0, col |-> 0, ranks |-> <<>>, scores |-> <<>>]

\* len(sys.argv) != 5: the usage message and sys.exit(1)
Usage ==
    /\ pc = "start"
    /\ Len(argv) # 4
    /\ pc' = "exit1"
    /\ error' = "Usage"
    /\ UNCHANGED <<argv, fs, df, processed_weights, processed_impacts, eng, ranks,
                   result, entered, prev>>

\* the call of check_inputs; an exception it raises is caught by main, which
\* prints it and exits with status 1
CheckInputs ==
    /\ pc = "start"
    /\ Len(argv) = 4
    /\ \E r \in {check_inputs(argv[1], argv[2], argv[3], argv[4], fs)} :  \* one call
           /\ pc' = IF r.ok THEN "validated" ELSE "exit1"
           /\ error' = r.err
           /\ df' = r.df
           /\ processed_weights' = r.weights
           /\ processed_impacts' = r.impacts
    /\ UNCHANGED <<argv, fs, eng, ranks, result, entered, prev>>

\* the call of topsis
Topsis ==
    /\ pc = "validated"
    /\ eng' = topsis(df, processed_weights, processed_impacts)
    /\ ranks' \in RanksOf(eng'.topsis_score)
    /\ entered' = TRUE
    /\ pc' = "scored"
    /\ UNCHANGED <<argv, fs, df, processed_weights, processed_impacts, error,
                   result, prev>>

\* df['Topsis Score'] = scores; df['Rank'] = ranks; df.to_csv(result_file)
Save ==
    /\ pc = "scored"
    /\ result' = [written |-> TRUE, scores |-> eng.topsis_score, ranks |-> ranks]
    /\ pc' = "done"
    /\ UNCHANGED <<argv, fs, df, processed_weights, processed_impacts, eng, ranks,
                   error, entered, prev>>

-----------------------------------------------------------------------------
(* Inputs of the validation runs *)

WeightTokensV == {<<"1">>, <<"0">>, <<"x">>}

ImpactTokensV == {<<"+">>, <<" ", "-">>, <<"x">>}

\* an argument string: empty, or up to MaxTokens tokens joined by commas
ArgStrings(tokens) == {<<>>} \cup {join(toks) : toks \in SeqsOf(tokens, 1, MaxTokens)}

RawCellsV == {"1", "abc", "NA"}

\* a table: an identifier column and the criteria columns of body
Table(body) ==
    [ncols |-> 1 + Len(body[1]), rows |-> [i \in DOMAIN body |-> <<"M">> \o body[i]]]

\* the criteria cells of the tables with nc columns and nr data rows
Bodies(nc, nr, cells) == [1..nr -> [1..(nc - 1) -> cells]]

\* the command lines: four arguments (a path of an existing or a missing input
\* file or none, the weights, the impacts, a result path or none), or three
ArgvsV ==
    LET W == ArgStrings(WeightTokensV)
        I == ArgStrings(ImpactTokensV)
    IN  ({"", DataFile, "nofile.csv"} \X W \X I \X {"out.csv"})
            \cup ({DataFile} \X W \X I \X {""})
            \cup ({DataFile} \X W \X I)

StartWith(a, t) ==
    /\ argv = a
    /\ fs = t
    /\ pc = "start"
    /\ df = NoFrame
    /\ processed_weights = <<>>
    /\ processed_impacts = <<>>
    /\ eng = NoEng
    /\ ranks = <<>>
    /\ error = "none"
    /\ result = NoResult
    /\ entered = FALSE
    /\ prev = NoPrev

Init ==
    \E a \in ArgvsV : \E nc \in 2..3 : \E nr \in 1..MaxRowsV :
        \E body \in Bodies(nc, nr, RawCellsV) : StartWith(a, Table(body))

Next == Usage \/ CheckInputs \/ Topsis \/ Save

Spec == Init /\ [][Next]_vars

-----------------------------------------------------------------------------
(* Inputs of the engine runs: well-formed files and arguments *)

NumericText(v) ==
    CASE v = 0 -> "0" [] v = 1 -> "1" [] v = 2 -> "2" [] v = 3 -> "3"
      [] v = 4 -> "4" [] v = 5 -> "5" [] v = 6 -> "6"

WeightTokensE == {<<"1">>, <<"2">>}

ImpactTokensE == {<<"+">>, <<"-">>}

\* the rows of t are in lexicographic order.  The engine treats all rows alike
\* (permuting the rows permutes the scores, and argsort may order ties either
\* way), so one order of each set of rows is drawn.
RowsSorted(t) ==
    \A i \in 1..(Len(t.rows) - 1) :
        LET a == [j \in 2..3 |-> NumericTextValue(t.rows[i][j])]
            b == [j \in 2..3 |-> NumericTextValue(t.rows[i + 1][j])]
        IN  a[2] < b[2] \/ (a[2] = b[2] /\ a[3] <= b[3])

ArgvsE ==
    {<<DataFile, join(w), join(i), "out.csv">> :
        w \in [1..2 -> WeightTokensE], i \in [1..2 -> ImpactTokensE]}

InitE ==
    \E a \in ArgvsE : \E nr \in 1..MaxRows :
        \E body \in Bodies(3, nr, {NumericText(v) : v \in 0..MaxVal}) :
            RowsSorted(Table(body)) /\ StartWith(a, Table(body))

NextE == CheckInputs \/ Topsis \/ Save

SpecE == InitE /\ [][NextE]_vars

-----------------------------------------------------------------------------
(* Two runs of main on neighbouring inputs *)

\* largest cell value in the monotonicity runs
MaxValM == 5

\* the table with the cell of data row i, criterion j set to v
WithCell(t, i, j, v) == [t EXCEPT !.rows[i][j + 1] = NumericText(v)]

\* After a run has finished, the same command is run again on the table with
\* one cell made better: larger in a '+' criterion, smaller in a '-' criterion.
Rerun ==
    /\ pc = "done"
    /\ prev = NoPrev
    /\ \E i \in DOMAIN df.rows : \E j \in DOMAIN processed_impacts : \E v \in 0..MaxValM :
        /\ IF processed_impacts[j] = <<"+">>
           THEN v = df.rows[i][j + 1].v + 1
           ELSE v = df.rows[i][j + 1].v - 1
        /\ fs' = WithCell(fs, i, j, v)
        /\ prev' = [row |-> i, col |-> j, ranks |-> ranks, scores |-> eng.topsis_score]
    /\ pc' = "start"
    /\ df' = NoFrame
    /\ processed_weights' = <<>>
    /\ processed_impacts' = <<>>
    /\ eng' = NoEng
    /\ ranks' = <<>>
    /\ result' = NoResult
    /\ entered' = FALSE
    /\ UNCHANGED <<argv, error>>

ArgvsM == {<<DataFile, join(<<<<"3">>, <<"2">>>>), join(<<<<"-">>, <<"+">>>>), "out.csv">>}

InitM ==
    \E a \in ArgvsM :
        \E body \in Bodies(3, 3, {NumericText(v) : v \in 0..MaxValM}) :
            RowsSorted(Table(body)) /\ StartWith(a, Table(body))

NextM == CheckInputs \/ Topsis \/ Save \/ Rerun

SpecM == InitM /\ [][NextM]_vars

-----------------------------------------------------------------------------
(* What the raw input violates, read off the command line and the file *)

ParamMissing == argv[1] = "" \/ argv[2] = <<>> \/ argv[3] = <<>> \/ argv[4] = ""

SourceMissing == argv[1] # DataFile

TooFewColumns == fs.ncols < 3

CriteriaCells == {fs.rows[i][j] : i \in DOMAIN fs.rows, j \in 2..fs.ncols}

\* a criteria cell that is not a number
NonNumericCell == \E c \in CriteriaCells : ~IsNumericText(c)

\* a criteria cell holding text that is neither a number nor a missing-value marker
TextCell == \E c \in CriteriaCells : ~IsNumericText(c) /\ c \notin NaMarkers

WeightPieces == split(argv[2], ",")

ImpactPieces == split(argv[3], ",")

MalformedWeights == \E k \in DOMAIN WeightPieces : ~IsFloatLiteral(strip(WeightPieces[k]))

WeightCountWrong == Len(WeightPieces) # fs.ncols - 1

ImpactCountWrong == Len(ImpactPieces) # fs.ncols - 1

BadImpactSymbol ==
    \E k \in DOMAIN ImpactPieces : strip(ImpactPieces[k]) \notin {<<"+">>, <<"-">>}

\* the failure of the earliest violated precondition, the impact symbols
\* tested before the two counts (the order of the specification's list)
ExpectedInListedOrder ==
    IF ParamMissing THEN "MissingParameter"
    ELSE IF SourceMissing THEN "SourceNotFound"
    ELSE IF TooFewColumns THEN "InsufficientColumns"
    ELSE IF TextCell THEN "NonNumericCriterion"
    ELSE IF MalformedWeights THEN "MalformedWeights"
    ELSE IF BadImpactSymbol THEN "InvalidImpactSymbol"
    ELSE IF WeightCountWrong THEN "WeightCountMismatch"
    ELSE IF ImpactCountWrong THEN "ImpactCountMismatch"
    ELSE "none"

\* the same, the two counts tested before the impact symbols
ExpectedCountsFirst ==
    IF ParamMissing THEN "MissingParameter"
    ELSE IF SourceMissing THEN "SourceNotFound"
    ELSE IF TooFewColumns THEN "InsufficientColumns"
    ELSE IF TextCell THEN "NonNumericCriterion"
    ELSE IF MalformedWeights THEN "MalformedWeights"
    ELSE IF WeightCountWrong THEN "WeightCountMismatch"
    ELSE IF ImpactCountWrong THEN "ImpactCountMismatch"
    ELSE IF BadImpactSymbol THEN "InvalidImpactSymbol"
    ELSE "none"

\* check_inputs has been called and has returned or raised
Checked == Len(argv) = 4 /\ pc # "start"

\* topsis has returned
Scored == pc \in {"scored", "done"}

AllDefined(sc) == \A i \in DOMAIN sc : sc[i].t = "num"

Tied(a, b) == a.t = "num" /\ b.t = "num" /\ ~ScoreLess(a, b) /\ ~ScoreLess(b, a)

NoTies(sc) == \A i, k \in DOMAIN sc : i # k => ~Tied(sc[i], sc[k])

-----------------------------------------------------------------------------
(* Properties *)

\* C1: for every matrix of N >= 1 rows, rows with equal scores included, the
\* ranks topsis returns are a permutation of 1..N: each rank is an integer of
\* 1..N and no two rows share a rank.
C1_RanksArePermutation ==
    Scored => /\ Len(ranks) = Len(df.rows)
              /\ \A k \in DOMAIN ranks : ranks[k] \in 1..Len(df.rows)
              /\ \A i, k \in DOMAIN ranks : i # k => ranks[i] # ranks[k]

\* C1 happens: two rows with exactly equal scores have been ranked
C1_TiedRowsRanked ==
    /\ pc = "scored"
    /\ \E i, k \in DOMAIN ranks : i # k /\ Tied(eng.topsis_score[i], eng.topsis_score[k])

\* C2: the ranks follow the scores: score[i] > score[k] implies
\* rank[i] < rank[k], so the highest score has rank 1 and the lowest rank N.
C2_RanksFollowScores ==
    Scored =>
        \A i, k \in DOMAIN ranks :
            ScoreLess(eng.topsis_score[k], eng.topsis_score[i]) => ranks[i] < ranks[k]

\* C2 happens: three rows of pairwise different scores have been ranked
C2_DistinctScoresRanked ==
    /\ pc = "scored"
    /\ Len(ranks) = 3
    /\ AllDefined(eng.topsis_score)
    /\ NoTies(eng.topsis_score)

\* C3: for every well-formed input topsis returns one score per row and every
\* score is a number of [0, 1], i.e. 0 <= sWorst <= sBest + sWorst.
C3_ScoresInUnitInterval ==
    Scored =>
        /\ Len(eng.topsis_score) = Len(df.rows)
        /\ \A i \in DOMAIN eng.topsis_score :
            /\ eng.topsis_score[i].t = "num"
            /\ eng.topsis_score[i].w >= 0
            /\ eng.topsis_score[i].b >= 0

\* the cell changed by Rerun held the best value of its criterion before the
\* change: the column maximum for '+', the column minimum for '-'
HeldBest ==
    LET now == df.rows[prev.row][prev.col + 1].v
        others == {df.rows[k][prev.col + 1].v : k \in DOMAIN df.rows \ {prev.row}}
    IN  IF processed_impacts[prev.col] = <<"+">>
        THEN \A x \in others : x <= now - 1
        ELSE \A x \in others : x >= now + 1

\* both runs have finished and every score of both is a number
BothRunsDefined ==
    /\ pc = "done"
    /\ prev.row # 0
    /\ AllDefined(prev.scores)
    /\ AllDefined(eng.topsis_score)

\* C4: making one alternative's value better in one criterion (larger for
\* '+', smaller for '-'), all else fixed, never gives it a worse rank.  Stated
\* for the runs in which the scores alone decide the ranks: no score is NaN
\* and no two scores are equal, before or after the change.
C4_Monotone ==
    (BothRunsDefined /\ NoTies(prev.scores) /\ NoTies(eng.topsis_score))
        => ranks[prev.row] <= prev.ranks[prev.row]

\* C4 as amended: the same, for an alternative that already holds the best
\* value of that criterion, when every score of both runs is a number and no
\* other score equals the alternative's score after the change.
C4_MonotoneForBest ==
    (/\ BothRunsDefined
     /\ HeldBest
     /\ \A k \in DOMAIN ranks : k # prev.row =>
            ~Tied(eng.topsis_score[k], eng.topsis_score[prev.row]))
        => ranks[prev.row] <= prev.ranks[prev.row]

\* C4 as amended happens: the holder of the best value was ranked again, and better
C4_BestRankedBetter ==
    /\ BothRunsDefined
    /\ HeldBest
    /\ \A k \in DOMAIN ranks : k # prev.row =>
            ~Tied(eng.topsis_score[k], eng.topsis_score[prev.row])
    /\ ranks[prev.row] < prev.ranks[prev.row]

\* C5: every input that violates a precondition of the validator (a missing
\* parameter, fewer than 3 columns, a non-numeric criteria cell, malformed
\* weights, a count mismatch, an invalid impact symbol) fails in check_inputs:
\* topsis is never entered and nothing is written.
C5_FailFast ==
    (/\ Len(argv) = 4
     /\ \/ ParamMissing
        \/ TooFewColumns
        \/ NonNumericCell
        \/ MalformedWeights
        \/ WeightCountWrong
        \/ ImpactCountWrong
        \/ BadImpactSymbol)
        => /\ ~entered
           /\ ~result.written
           /\ pc = "exit1" => error \notin {"none", "Usage"}

\* C6: check_inputs reports the failure of the earliest violated precondition
\* in the listed order: parameters, columns, numeric cells, weights parse,
\* impact symbols, then the two counts.
C6_ListedOrder == Checked => error = ExpectedInListedOrder

\* C6 as amended: the same with the two counts (weights, then impacts) tested
\* before the impact symbols.
C6_CountsBeforeSymbols == Checked => error = ExpectedCountsFirst

\* C6 as amended happens: an impacts string with a wrong count and a bad symbol
C6_BothViolated ==
    /\ Checked
    /\ pc = "exit1"
    /\ error = "ImpactCountMismatch"
    /\ BadImpactSymbol

\* C7: check_inputs rejects every table with a criteria cell that is not
\* numeric: it never returns a (table, weights, impacts) triple for it.
C7_NonNumericRejected == (Checked /\ NonNumericCell) => pc = "exit1"

\* C8: a criterion column of norm zero makes topsis fail as
\* DegenerateCriterion, with no scores and no ranks returned.
C8_ZeroNormRaises ==
    (Scored /\ \E j \in 1..(df.columns - 1) : norm(decision_matrix(df))[j] = Num(0))
        => (error = "DegenerateCriterion" /\ ranks = <<>> /\ eng = NoEng)

\* C9: the weight vector check_inputs returns has one weight per criterion
\* and every weight is positive.
C9_WeightsPositive ==
    pc = "validated" =>
        /\ Len(processed_weights) = df.columns - 1
        /\ \A k \in DOMAIN processed_weights : processed_weights[k] > 0

\* C10: a row with sBest + sWorst = 0 gets the score 0, not NaN.
C10_ZeroDenominatorScoresZero ==
    Scored =>
        \A i \in DOMAIN eng.topsis_score :
            (eng.s_best[i] = Num(0) /\ eng.s_worst[i] = Num(0))
                => (eng.topsis_score[i].t = "num" /\ eng.topsis_score[i].w = 0)

====
